---- MODULE Spec2Model ----
(***************************************************************************)
(* A model of minio-presign-service: the auth gate (withAuth), the routing *)
(* of /health and /presign, the presign handler with its single external   *)
(* `mc share download` subprocess bounded by a context deadline, and the   *)
(* pure helpers buildExpire, joinObjectPath and extractShareURL.           *)
(*                                                                         *)
(* Strings are sequences of one-character strings, so that trimming,       *)
(* prefix tests, lower-casing and decimal formatting are computed the way  *)
(* the Go code computes them.  Fixed messages are one-element sequences.   *)
(***************************************************************************)
EXTENDS Integers, Sequences, FiniteSets, TLC

\* ------------------------------------------------------------------ bounds
\* largest duration component drawn for days, hours and minutes
MaxDur == 3
\* largest number of consecutive separators put around a folder or a key
MaxSlash == 2

\* ----------------------------------------------------------- Go's strings
\* U+00A0, which unicode.IsSpace counts as a space and an HTTP header may carry
NBSP == "<U+00A0>"

\* the characters strings.TrimSpace removes
WhiteSpace == {" ", "\t", "\n", "\r", NBSP}

RECURSIVE TrimLeft(_)
TrimLeft(s) ==
  IF s # <<>> /\ Head(s) \in WhiteSpace THEN TrimLeft(Tail(s)) ELSE s

RECURSIVE TrimRight(_)
TrimRight(s) ==
  IF s # <<>> /\ s[Len(s)] \in WhiteSpace
    THEN TrimRight(SubSeq(s, 1, Len(s) - 1))
    ELSE s

\* strings.TrimSpace
TrimSpace(s) == TrimRight(TrimLeft(s))

\* strings.HasPrefix
HasPrefix(s, p) == Len(s) >= Len(p) /\ SubSeq(s, 1, Len(p)) = p

\* strings.HasSuffix
HasSuffix(s, p) ==
  Len(s) >= Len(p) /\ SubSeq(s, Len(s) - Len(p) + 1, Len(s)) = p

\* strings.TrimPrefix: removes one occurrence of the prefix, if present
TrimPrefix(s, p) ==
  IF HasPrefix(s, p) THEN SubSeq(s, Len(p) + 1, Len(s)) ELSE s

\* strings.TrimSuffix: removes one occurrence of the suffix, if present
TrimSuffix(s, p) ==
  IF HasSuffix(s, p) THEN SubSeq(s, 1, Len(s) - Len(p)) ELSE s

UpperLetters ==
  <<"A","B","C","D","E","F","G","H","I","J","K","L","M",
    "N","O","P","Q","R","S","T","U","V","W","X","Y","Z">>
LowerLetters ==
  <<"a","b","c","d","e","f","g","h","i","j","k","l","m",
    "n","o","p","q","r","s","t","u","v","w","x","y","z">>

LowerChar(c) ==
  IF \E i \in 1..26 : UpperLetters[i] = c
    THEN LowerLetters[CHOOSE i \in 1..26 : UpperLetters[i] = c]
    ELSE c

\* strings.ToLower
ToLower(s) == [i \in 1..Len(s) |-> LowerChar(s[i])]

DigitChars == <<"0","1","2","3","4","5","6","7","8","9">>

\* fmt.Sprintf("%d", n) for n >= 0
RECURSIVE FmtInt(_)
FmtInt(n) ==
  IF n < 10 THEN <<DigitChars[n + 1]>>
  ELSE FmtInt(n \div 10) \o <<DigitChars[(n % 10) + 1]>>

\* ------------------------------------------------------------ pure helpers
\* every component written, the zero ones too
buildExpireZeros(days, hours, minutes) ==
  IF days < 0 \/ hours < 0 \/ minutes < 0 THEN <<>>
  ELSE IF days = 0 /\ hours = 0 /\ minutes = 0 THEN <<>>
  ELSE FmtInt(days) \o <<"d">> \o FmtInt(hours) \o <<"h">>
       \o FmtInt(minutes) \o <<"m">>

buildExpire(days, hours, minutes) ==
  IF days < 0 \/ hours < 0 \/ minutes < 0 THEN <<>>
  ELSE IF days = 0 /\ hours = 0 /\ minutes = 0 THEN <<>>
  ELSE (IF days > 0 THEN FmtInt(days) \o <<"d">> ELSE <<>>)
       \o (IF hours > 0 THEN FmtInt(hours) \o <<"h">> ELSE <<>>)
       \o (IF minutes > 0 THEN FmtInt(minutes) \o <<"m">> ELSE <<>>)

clean(s) == TrimSuffix(TrimPrefix(TrimSpace(s), <<"/">>), <<"/">>)

joinObjectPath(folder, key) ==
  LET f == clean(folder)
      k == clean(key)
  IN IF f = <<>> THEN k ELSE f \o <<"/">> \o k

SharePrefix == <<"S","h","a","r","e",":">>

\* what a line that starts with "Share:" yields, given the rest of it trimmed
ShareResult(u) ==
  IF u = <<>> THEN [ok |-> FALSE, url |-> <<>>] ELSE [ok |-> TRUE, url |-> u]

\* the loop over strings.Split(out, "\n"): cur is the line being read off s;
\* the first line that, trimmed, starts with "Share:" decides
RECURSIVE ShareScan(_, _)
ShareScan(s, cur) ==
  IF s # <<>> /\ Head(s) # "\n"
    THEN ShareScan(Tail(s), Append(cur, Head(s)))
  ELSE IF HasPrefix(TrimSpace(cur), SharePrefix)
    THEN ShareResult(TrimSpace(TrimPrefix(TrimSpace(cur), SharePrefix)))
  ELSE IF s = <<>> THEN [ok |-> FALSE, url |-> <<>>]
  ELSE ShareScan(Tail(s), <<>>)

\* [ok, url]: the remainder of the first line that starts with "Share:"
extractShareURL(o) == ShareScan(o, <<>>)

HttpScheme == <<"h","t","t","p",":","/","/">>
HttpsScheme == <<"h","t","t","p","s",":","/","/">>
UrlStop == WhiteSpace \cup {"'", "\""}

\* the longest run of characters outside UrlStop at the head of s
RECURSIVE UrlRun(_)
UrlRun(s) ==
  IF s # <<>> /\ Head(s) \notin UrlStop
    THEN <<Head(s)>> \o UrlRun(Tail(s))
    ELSE <<>>

\* the match of https?://[^\s'"]+ anchored at the head of s, or <<>>
UrlAt(s) ==
  IF HasPrefix(s, HttpsScheme)
    THEN IF UrlRun(SubSeq(s, 9, Len(s))) # <<>>
           THEN HttpsScheme \o UrlRun(SubSeq(s, 9, Len(s)))
           ELSE <<>>
  ELSE IF HasPrefix(s, HttpScheme)
    THEN IF UrlRun(SubSeq(s, 8, Len(s))) # <<>>
           THEN HttpScheme \o UrlRun(SubSeq(s, 8, Len(s)))
           ELSE <<>>
  ELSE <<>>

\* [ok, url]: the leftmost match of the URL pattern
RECURSIVE extractFirstURL(_)
extractFirstURL(o) ==
  IF o = <<>> THEN [ok |-> FALSE, url |-> <<>>]
  ELSE IF Head(o) = "h" /\ UrlAt(o) # <<>> THEN [ok |-> TRUE, url |-> UrlAt(o)]
  ELSE extractFirstURL(Tail(o))

\* ------------------------------------------------------------ environment
\* The image sets only PORT; MINIO_ALIAS and PUBLIC_MINIO_BASE_URL are unset.
MINIO_ALIAS == <<>>
PUBLIC_MINIO_BASE_URL == <<>>

getenv(v, def) == IF TrimSpace(v) = <<>> THEN def ELSE TrimSpace(v)

DefaultAlias == <<"m","y","m","i","n","i","o">>

SchemeSep == <<":","/","/">>

\* url.Parse, for the shapes scheme://host/path?query and plain paths:
\* [scheme, host, rest] with rest the path and query as written
ParseURL(u) ==
  LET at(i) == i >= 2 /\ HasPrefix(SubSeq(u, i, Len(u)), SchemeSep)
  IN IF \E i \in 1..Len(u) : at(i)
       THEN LET i == CHOOSE j \in 1..Len(u) :
                       at(j) /\ \A k \in 1..(j - 1) : ~at(k)
                after == SubSeq(u, i + 3, Len(u))
                stop(j) == after[j] \in {"/", "?", "#"}
                n == IF \E j \in 1..Len(after) : stop(j)
                       THEN (CHOOSE j \in 1..Len(after) :
                               stop(j) /\ \A k \in 1..(j - 1) : ~stop(k)) - 1
                       ELSE Len(after)
            IN [scheme |-> SubSeq(u, 1, i - 1),
                host |-> SubSeq(after, 1, n),
                rest |-> SubSeq(after, n + 1, Len(after))]
       ELSE [scheme |-> <<>>, host |-> <<>>, rest |-> u]

\* (*url.URL).String
URLString(p) ==
  (IF p.scheme # <<>> THEN p.scheme \o <<":">> ELSE <<>>)
  \o (IF p.host # <<>> THEN <<"/","/">> \o p.host ELSE <<>>)
  \o (IF p.rest # <<>> /\ p.host # <<>> /\ Head(p.rest) \notin {"/", "?", "#"}
        THEN <<"/">> ELSE <<>>)
  \o p.rest

\* swaps scheme and host for those of the configured public base; a no-op
\* when no public base is configured
rewritePublicBase(u) ==
  LET publicBase == TrimSpace(PUBLIC_MINIO_BASE_URL)
  IN IF publicBase = <<>> THEN u
     ELSE LET parsed == ParseURL(u)
              pub == ParseURL(publicBase)
          IN URLString([parsed EXCEPT !.scheme = pub.scheme,
                                      !.host = pub.host])

\* fmt.Sprintf("%s/%s/%s", alias, bucket, objectPath)
Target(alias, b, op) == alias \o <<"/">> \o b \o <<"/">> \o op

DefaultExpire == <<"1","5","m">>

\* ------------------------------------------------------------------ state
VARIABLES
  apiToken,    \* the API_TOKEN environment variable, as set
  variant,     \* which generation of main.go runs: "share" or "firsturl"
  req,         \* the request being (or last) served
  pc,          \* "idle", "waiting" (inside cmd.CombinedOutput) or "done"
  gate,        \* the auth gate: "Unchecked", "Allowed" or "Denied"
  routed,      \* the handler the mux called: "none", "health", "presign", "notfound"
  responses,   \* the responses written for this request, in order
  starts,      \* how many times a subprocess was started for this request
  cmd,         \* the subprocess: state, --expire argument, target argument
  ctxErr,      \* ctx.Err(): "nil", "DeadlineExceeded" or "Canceled"
  out,         \* combined output captured from the subprocess
  cmdErr,      \* the error CombinedOutput returns: <<>> is nil
  local,       \* presignHandler's locals: bucket, objectPath, expire
  outcome,     \* how the run was classified: "None", "Timeout", "ToolError", "Success"
  parserInput, \* the text handed to the output parser, or NoText
  joined       \* the last joinObjectPath call made on its own: folder, key, path

vars == <<apiToken, variant, req, pc, gate, routed, responses, starts, cmd,
          ctxErr, out, cmdErr, local, outcome, parserInput, joined>>

\* what no request changes
fixed == <<apiToken, variant, joined>>

NoText == <<"<none>">>
NoCmd == [state |-> "none", expire |-> <<>>, target |-> <<>>, exit |-> -1]
NoJoin == [folder |-> <<>>, key |-> <<>>, path |-> <<>>, called |-> FALSE]
NoLocal == [bucket |-> <<>>, objectPath |-> <<>>, expire |-> <<>>]
NoReq == [path |-> "", method |-> "", xApiToken |-> <<>>,
          authorization |-> <<>>, body |-> "", bucket |-> <<>>,
          folder |-> <<>>, key |-> <<>>, days |-> 0, hours |-> 0,
          minutes |-> 0]

\* ErrorResponse / PresignResponse / plain text, as written to the client
ErrorBody(status, msg) ==
  [kind |-> "error", status |-> status, error |-> msg, url |-> <<>>,
   object |-> <<>>, bucket |-> <<>>, expires_in |-> <<>>]
PresignBody(u, obj, b, e) ==
  [kind |-> "presign", status |-> 200, error |-> <<>>, url |-> u,
   object |-> obj, bucket |-> b, expires_in |-> e]
TextBody(status, msg) ==
  [kind |-> "text", status |-> status, error |-> msg, url |-> <<>>,
   object |-> <<>>, bucket |-> <<>>, expires_in |-> <<>>]

\* ----------------------------------------------------------------- inputs
Tok == <<"t","k">>
TokUpper == <<"T","K">>

\* values the API_TOKEN variable may hold
Secrets == {<<>>, <<" ">>, Tok, <<" ">> \o Tok \o <<" ">>}

\* values of the x-api-token header
XTokens ==
  {<<>>, Tok, TokUpper, <<" ">> \o Tok \o <<" ">>, Tok \o <<NBSP>>, <<"t">>}

AuthSchemes ==
  {<<"B","e","a","r","e","r">>, <<"b","e","a","r","e","r">>,
   <<"B","E","A","R","E","R">>, <<"B","a","s","i","c">>}
AuthSeps == {<<>>, <<" ">>, <<" "," ">>}
AuthTokens == {<<>>, Tok, TokUpper, Tok \o <<NBSP>>, Tok \o <<"x">>}

\* values of the Authorization header
Authorizations ==
  {<<>>, Tok}
  \cup {sch \o sep \o t : sch \in AuthSchemes, sep \in AuthSeps,
                          t \in AuthTokens}

Paths == {"/health", "/presign", "/other"}

Slashes(n) == [i \in 1..n |-> "/"]
Pads == {<<>>, <<" ">>}

\* a name with up to MaxSlash separators on each side, inside optional blanks
Around(core) ==
  {p \o Slashes(i) \o core \o Slashes(j) \o p :
     p \in Pads, i \in 0..MaxSlash, j \in 0..MaxSlash}

\* folders and keys given to joinObjectPath on its own
PathFolders == Around(<<>>) \cup Around(<<"a">>) \cup Around(<<"a","/","b">>)
PathKeys == Around(<<>>) \cup Around(<<"k">>)

\* folders, keys and buckets sent in request bodies
Folders == {<<>>, <<"a">>, <<"/","a","/">>, <<" ","a"," ">>}
Keys == {<<>>, <<" ">>, <<"k">>, <<"/">>, <<" ","k","/">>}
Buckets == {<<>>, <<" ">>, <<"b">>, <<" ","b"," ">>}

DurValues == (-1..MaxDur) \cup {15}

\* a well-formed, authorised request for bucket b, key k, ten minutes
BaseReq ==
  [path |-> "/presign", method |-> "POST", xApiToken |-> Tok,
   authorization |-> <<>>, body |-> "ok", bucket |-> <<"b">>,
   folder |-> <<>>, key |-> <<"k">>, days |-> 0, hours |-> 0,
   minutes |-> 10]

\* requests that vary the path and the presented credentials
ReqsAuth ==
  {[BaseReq EXCEPT !.path = p, !.xApiToken = x, !.authorization = a] :
     p \in Paths, x \in XTokens, a \in Authorizations}

\* requests that vary the method, the body and its string fields
ReqsBody ==
  {[BaseReq EXCEPT !.method = m, !.path = p] :
     m \in {"GET", "POST"}, p \in Paths}
  \cup {[BaseReq EXCEPT !.body = b] : b \in {"unreadable", "invalid"}}
  \cup {[BaseReq EXCEPT !.bucket = b, !.folder = f, !.key = k] :
          b \in Buckets, f \in Folders, k \in Keys}

\* requests that vary the duration
ReqsDur ==
  {[BaseReq EXCEPT !.days = d, !.hours = h, !.minutes = m] :
     d \in DurValues, h \in DurValues, m \in DurValues}

Requests == ReqsAuth \cup ReqsBody \cup ReqsDur

\* a few requests of every kind, for the runs that follow each request to
\* its end under fairness
ReqsLive ==
  {[BaseReq EXCEPT !.method = m, !.path = p] :
     m \in {"GET", "POST"}, p \in Paths}
  \cup {[BaseReq EXCEPT !.body = b] : b \in {"unreadable", "invalid"}}
  \cup {[BaseReq EXCEPT !.xApiToken = x, !.authorization = a] :
          x \in {<<>>, TokUpper},
          a \in {<<>>, <<"b","e","a","r","e","r"," ">> \o Tok}}
  \cup {[BaseReq EXCEPT !.bucket = b, !.key = k] :
          b \in {<<>>, <<"b">>}, k \in {<<" ">>, <<"/","k">>}}
  \cup {[BaseReq EXCEPT !.days = d, !.minutes = 0] : d \in {-1, 0, 2}}

ShareLine ==
  <<"S","h","a","r","e",":"," ","h","t","t","p",":","/","/","s","/","o","\n">>
UrlLine == <<"U","R","L",":"," ","h","t","t","p",":","/","/","u","/","o","\n">>
ErrText == <<" ","e","r","r"," ","\n">>

\* what the tool may print before it exits
ToolOutputs ==
  {<<>>, ShareLine, UrlLine \o ShareLine, ErrText,
   <<"S","h","a","r","e",":","\n">>, <<"S","h","a","r","e",":"," ","x","\n">>}

\* what was captured from a tool that was killed
KilledOutputs == {<<>>, ErrText}

ExitCodes == {0, 1}

ExitError(code) == IF code = 0 THEN <<>> ELSE <<"exit status 1">>
KilledError == <<"signal: killed">>
StartError == <<"exec: \"mc\": executable file not found in $PATH">>

\* ---------------------------------------------------------------- actions
\* the variable taken as it is, blanks included
ConfiguredTokenRaw == apiToken

\* withAuth: the configured shared secret
ConfiguredToken == TrimSpace(apiToken)

\* the credentials compared to the token without regard to case
authOKFold(token, r) ==
  LET h1 == TrimSpace(r.xApiToken)
      h2 == TrimSpace(r.authorization)
      ok1 == h1 # <<>> /\ ToLower(h1) = ToLower(token)
      ok2 == /\ HasPrefix(ToLower(h2), <<"b","e","a","r","e","r"," ">>)
             /\ ToLower(TrimSpace(SubSeq(h2, 8, Len(h2)))) = ToLower(token)
  IN ok1 \/ ok2

\* withAuth: whether the presented credentials match the token
authOK(token, r) ==
  LET h1 == TrimSpace(r.xApiToken)
      h2 == TrimSpace(r.authorization)
      ok1 == h1 # <<>> /\ h1 = token
      ok2 == /\ HasPrefix(ToLower(h2), <<"b","e","a","r","e","r"," ">>)
             /\ TrimSpace(SubSeq(h2, 8, Len(h2))) = token
  IN ok1 \/ ok2

\* a request answered before any subprocess exists
Answer(r, g, rt, resp) ==
  /\ req' = r
  /\ gate' = g
  /\ routed' = rt
  /\ responses' = <<resp>>
  /\ pc' = "done"
  /\ starts' = 0
  /\ cmd' = NoCmd
  /\ ctxErr' = "nil"
  /\ out' = <<>>
  /\ cmdErr' = <<>>
  /\ local' = NoLocal
  /\ outcome' = "None"
  /\ parserInput' = NoText

\* the expiration handed to the tool and echoed in the response
expireFor(r) ==
  LET e == buildExpire(r.days, r.hours, r.minutes)
  IN IF e = <<>> THEN DefaultExpire ELSE e

\* exec.CommandContext(...) and the start of cmd.CombinedOutput()
StartCmd(e, t, startOK) ==
  /\ starts' = 1
  /\ cmd' = [state |-> IF startOK THEN "running" ELSE "failed",
             expire |-> e, target |-> t, exit |-> -1]
  /\ cmdErr' = IF startOK THEN <<>> ELSE StartError

\* the message for a body that cannot be read
UnreadableMsg ==
  IF variant = "share" THEN <<"unable to read request body">>
  ELSE <<"invalid JSON body">>

presignHandler(r, g, startOK) ==
  IF r.method # "POST"
    THEN Answer(r, g, "presign", ErrorBody(405, <<"method not allowed">>))
  ELSE IF r.body = "unreadable"
    THEN Answer(r, g, "presign", ErrorBody(400, UnreadableMsg))
  ELSE IF r.body = "invalid"
    THEN Answer(r, g, "presign", ErrorBody(400, <<"invalid JSON body">>))
  ELSE
    LET b == TrimSpace(r.bucket)
        f == TrimSpace(r.folder)
        k == TrimSpace(r.key)
    IN IF b = <<>>
         THEN Answer(r, g, "presign", ErrorBody(400, <<"bucket is required">>))
       ELSE IF k = <<>>
         THEN Answer(r, g, "presign", ErrorBody(400, <<"key is required">>))
       ELSE
         LET alias == getenv(MINIO_ALIAS, DefaultAlias)
             objectPath == joinObjectPath(f, k)
             target == Target(alias, b, objectPath)
             expire == expireFor(r)
         IN /\ req' = r
            /\ gate' = g
            /\ routed' = "presign"
            /\ responses' = <<>>
            /\ pc' = "waiting"
            /\ StartCmd(expire, target, startOK)
            /\ ctxErr' = "nil"
            /\ out' = <<>>
            /\ local' = [bucket |-> b, objectPath |-> objectPath,
                         expire |-> expire]
            /\ outcome' = "None"
            /\ parserInput' = NoText

healthHandler(r, g) == Answer(r, g, "health", TextBody(200, <<"ok">>))

\* http.ServeMux with the patterns /health and /presign
mux(r, g, startOK) ==
  IF r.path = "/health" THEN healthHandler(r, g)
  ELSE IF r.path = "/presign" THEN presignHandler(r, g, startOK)
  ELSE Answer(r, g, "notfound", TextBody(404, <<"404 page not found">>))

\* the mux served without the gate around it
withAuthBypass(r, startOK) == mux(r, "Unchecked", startOK)

withAuth(r, startOK) ==
  IF r.path = "/health" THEN mux(r, "Unchecked", startOK)
  ELSE
    LET token == ConfiguredToken
    IN IF token = <<>>
         THEN Answer(r, "Denied", "none",
                     ErrorBody(500, <<"API_TOKEN is not set on server">>))
       ELSE IF ~authOK(token, r)
         THEN Answer(r, "Denied", "none", ErrorBody(401, <<"unauthorized">>))
       ELSE mux(r, "Allowed", startOK)

\* a request arrives and runs through withLogging(withAuth(mux)); requests
\* share no state, so the model follows one request at a time
Serve(r, startOK) ==
  /\ pc = "idle"
  /\ withAuth(r, startOK)
  /\ UNCHANGED fixed

\* the tool exits on its own, having printed o
ProcExit(o, code) ==
  /\ pc = "waiting"
  /\ cmd.state = "running"
  /\ cmd' = [cmd EXCEPT !.state = "exited", !.exit = code]
  /\ out' = o
  /\ cmdErr' = ExitError(code)
  /\ UNCHANGED <<req, pc, gate, routed, responses, starts, ctxErr, local,
                 outcome, parserInput, fixed>>

\* the timer of context.WithTimeout fires
DeadlineFires ==
  /\ pc = "waiting"
  /\ ctxErr = "nil"
  /\ ctxErr' = "DeadlineExceeded"
  /\ UNCHANGED <<req, pc, gate, routed, responses, starts, cmd, out, cmdErr,
                 local, outcome, parserInput, fixed>>

\* the inbound request's context is canceled (the client went away)
RequestCanceled ==
  /\ pc = "waiting"
  /\ ctxErr = "nil"
  /\ ctxErr' = "Canceled"
  /\ UNCHANGED <<req, pc, gate, routed, responses, starts, cmd, out, cmdErr,
                 local, outcome, parserInput, fixed>>

\* a command started without its context is never killed
KillProcNever == FALSE /\ UNCHANGED vars

\* exec.CommandContext kills the process once its context is done
KillProc ==
  /\ pc = "waiting"
  /\ cmd.state = "running"
  /\ ctxErr # "nil"
  /\ cmd' = [cmd EXCEPT !.state = "killed"]
  /\ \E o \in KilledOutputs : out' = o
  /\ cmdErr' = KilledError
  /\ UNCHANGED <<req, pc, gate, routed, responses, starts, ctxErr, local,
                 outcome, parserInput, fixed>>

extractURL(o) ==
  IF variant = "share" THEN extractShareURL(o) ELSE extractFirstURL(o)

finalURL(u) == IF variant = "share" THEN rewritePublicBase(u) ELSE u

ParseFailure(o) ==
  IF variant = "share"
    THEN ErrorBody(400, <<"could not parse Share URL. mc output: ">>
                          \o TrimSpace(o))
    ELSE ErrorBody(500, <<"could not extract URL from mc output">>)

\* the classification of the run, in the order the handler tests it
SigningOutcome(ce, err) ==
  IF ce = "DeadlineExceeded" THEN "Timeout"
  ELSE IF err # <<>> THEN "ToolError"
  ELSE "Success"

\* the timeout branch without its return: the handler goes on to answer again
RepliesFallThrough(ce, err, o) ==
  (IF ce = "DeadlineExceeded"
     THEN <<ErrorBody(504, <<"mc command timed out">>)>> ELSE <<>>)
  \o (IF err # <<>>
        THEN <<ErrorBody(400, IF TrimSpace(o) = <<>> THEN err
                              ELSE TrimSpace(o))>>
        ELSE <<ParseFailure(o)>>)

\* the responses the handler writes once CombinedOutput has returned
Replies(ce, err, o) ==
  IF ce = "DeadlineExceeded"
    THEN <<ErrorBody(504, <<"mc command timed out">>)>>
  ELSE IF err # <<>>
    THEN LET msg == IF TrimSpace(o) = <<>> THEN err ELSE TrimSpace(o)
         IN <<ErrorBody(400, msg)>>
  ELSE LET ex == extractURL(o)
       IN IF ~ex.ok THEN <<ParseFailure(o)>>
          ELSE <<PresignBody(finalURL(ex.url), local.objectPath,
                             local.bucket, local.expire)>>

\* a handler that runs the tool once more after a tool error
FinishRetry ==
  /\ pc = "waiting"
  /\ cmd.state \in {"failed", "exited", "killed"}
  /\ IF SigningOutcome(ctxErr, cmdErr) = "ToolError" /\ starts < 2
       THEN /\ starts' = starts + 1
            /\ cmd' = [cmd EXCEPT !.state = "running", !.exit = -1]
            /\ cmdErr' = <<>>
            /\ out' = <<>>
            /\ UNCHANGED <<req, pc, gate, routed, responses, ctxErr, local,
                           outcome, parserInput, fixed>>
       ELSE /\ outcome' = SigningOutcome(ctxErr, cmdErr)
            /\ parserInput' = IF outcome' = "Success" THEN out ELSE NoText
            /\ responses' = responses \o Replies(ctxErr, cmdErr, out)
            /\ pc' = "done"
            /\ UNCHANGED <<req, gate, routed, starts, cmd, ctxErr, out,
                           cmdErr, local, fixed>>

\* CombinedOutput returns and the handler answers
Finish ==
  /\ pc = "waiting"
  /\ cmd.state \in {"failed", "exited", "killed"}
  /\ outcome' = SigningOutcome(ctxErr, cmdErr)
  /\ parserInput' = IF outcome' = "Success" THEN out ELSE NoText
  /\ responses' = responses \o Replies(ctxErr, cmdErr, out)
  /\ pc' = "done"
  /\ UNCHANGED <<req, gate, routed, starts, cmd, ctxErr, out, cmdErr, local,
                 fixed>>

\* the handler has returned (the deferred cancel() has run) and everything
\* scoped to the request is gone
Return ==
  /\ pc = "done"
  /\ pc' = "idle"
  /\ req' = NoReq
  /\ gate' = "Unchecked"
  /\ routed' = "none"
  /\ responses' = <<>>
  /\ starts' = 0
  /\ cmd' = NoCmd
  /\ ctxErr' = "nil"
  /\ out' = <<>>
  /\ cmdErr' = <<>>
  /\ local' = NoLocal
  /\ outcome' = "None"
  /\ parserInput' = NoText
  /\ UNCHANGED fixed

Init ==
  /\ apiToken \in Secrets
  /\ variant \in {"share", "firsturl"}
  /\ req = NoReq
  /\ pc = "idle"
  /\ gate = "Unchecked"
  /\ routed = "none"
  /\ responses = <<>>
  /\ starts = 0
  /\ cmd = NoCmd
  /\ ctxErr = "nil"
  /\ out = <<>>
  /\ cmdErr = <<>>
  /\ local = NoLocal
  /\ outcome = "None"
  /\ parserInput = NoText
  /\ joined = NoJoin

\* what happens to a request once it is being served
Step ==
  \/ \E o \in ToolOutputs, code \in ExitCodes : ProcExit(o, code)
  \/ DeadlineFires
  \/ RequestCanceled
  \/ KillProc
  \/ Finish
  \/ Return

Next ==
  \/ \E r \in Requests, startOK \in BOOLEAN : Serve(r, startOK)
  \/ Step

Spec == Init /\ [][Next]_vars

NextLive ==
  \/ \E r \in ReqsLive, startOK \in BOOLEAN : Serve(r, startOK)
  \/ Step

\* The runtime fires the timer, runs the goroutine that kills the process,
\* and resumes the handler; the tool itself may hang and the client may stay.
FairSpec ==
  /\ Init
  /\ [][NextLive]_vars
  /\ WF_vars(DeadlineFires)
  /\ WF_vars(KillProc)
  /\ WF_vars(Finish)

\* joinObjectPath applied on its own to the folder and key drawn at the start
InitPath ==
  /\ apiToken = <<>>
  /\ variant = "share"
  /\ req = NoReq
  /\ pc = "idle"
  /\ gate = "Unchecked"
  /\ routed = "none"
  /\ responses = <<>>
  /\ starts = 0
  /\ cmd = NoCmd
  /\ ctxErr = "nil"
  /\ out = <<>>
  /\ cmdErr = <<>>
  /\ local = NoLocal
  /\ outcome = "None"
  /\ parserInput = NoText
  /\ \E f \in PathFolders, k \in PathKeys :
       joined = [folder |-> f, key |-> k, path |-> <<>>, called |-> FALSE]

Join ==
  /\ ~joined.called
  /\ joined' = [joined EXCEPT !.path = joinObjectPath(joined.folder, joined.key),
                              !.called = TRUE]
  /\ UNCHANGED <<apiToken, variant, req, pc, gate, routed, responses, starts,
                 cmd, ctxErr, out, cmdErr, local, outcome, parserInput>>

NextPath == Join

SpecPath == InitPath /\ [][NextPath]_vars

\* ----------------------------------------------------------------- claims
Served == req # NoReq
Blank(str) == \A i \in 1..Len(str) : str[i] \in WhiteSpace
OneResponse(status) == Len(responses) = 1 /\ responses[1].status = status

\* C1: when the configured secret is empty or blank, every request for a
\* path other than /health is answered with 500 and the presign handler is
\* not reached, whatever x-api-token and Authorization carry.
C1_FailsClosed ==
  (Served /\ Blank(apiToken) /\ req.path # "/health")
    => /\ pc = "done"
       /\ OneResponse(500)
       /\ responses[1].kind = "error"
       /\ gate = "Denied"
       /\ routed = "none"
       /\ starts = 0
       /\ cmd = NoCmd

\* a blank secret, the very same blank presented as a bearer token, and 500
C1_Witness ==
  /\ Served
  /\ apiToken = <<" ">>
  /\ req.path = "/presign"
  /\ req.xApiToken = Tok
  /\ req.authorization = <<"B","e","a","r","e","r"," "," ">> \o Tok
  /\ OneResponse(500)

\* the secret the server compares with: the variable without the blanks
\* around it
Secret ==
  LET solid == {i \in 1..Len(apiToken) : apiToken[i] \notin WhiteSpace}
      first == CHOOSE i \in solid : \A k \in solid : i <= k
      last == CHOOSE i \in solid : \A k \in solid : i >= k
  IN IF solid = {} THEN <<>> ELSE SubSeq(apiToken, first, last)

BearerPrefix == <<"b","e","a","r","e","r"," ">>

\* h is a bearer scheme prefix, in any case, followed by exactly t
IsBearerOf(h, t) ==
  /\ Len(h) = 7 + Len(t)
  /\ \A i \in 1..7 : LowerChar(h[i]) = BearerPrefix[i]
  /\ SubSeq(h, 8, Len(h)) = t

\* C2 as stated: with a non-empty secret a request for a path other than
\* /health is Allowed exactly when x-api-token equals the secret or
\* Authorization is a bearer prefix (any case) followed by the secret; all
\* other requests are Denied with 401 and no handler is called.
C2_ExactMatch ==
  (Served /\ ~Blank(apiToken) /\ req.path # "/health")
    => IF req.xApiToken = Secret \/ IsBearerOf(req.authorization, Secret)
         THEN gate = "Allowed"
         ELSE gate = "Denied" /\ OneResponse(401) /\ routed = "none"

\* h is s with nothing but white space around it
PaddedEq(h, s) ==
  \E i \in 1..(Len(h) + 1) :
    /\ i + Len(s) - 1 <= Len(h)
    /\ SubSeq(h, i, i + Len(s) - 1) = s
    /\ \A k \in 1..Len(h) : (k < i \/ k > i + Len(s) - 1) => h[k] \in WhiteSpace

\* h is white space, a bearer prefix in any case, and s with nothing but
\* white space around it
PaddedBearer(h, s) ==
  \E i \in 1..Len(h) :
    /\ i + 6 <= Len(h)
    /\ \A k \in 1..(i - 1) : h[k] \in WhiteSpace
    /\ \A k \in 1..7 : LowerChar(h[i + k - 1]) = BearerPrefix[k]
    /\ PaddedEq(SubSeq(h, i + 7, Len(h)), s)

\* C2, amended: the comparison is made after the white space around the
\* header value, and around the token portion, is trimmed away.
C2_TrimmedMatch ==
  (Served /\ ~Blank(apiToken) /\ req.path # "/health")
    => IF PaddedEq(req.xApiToken, Secret)
          \/ PaddedBearer(req.authorization, Secret)
         THEN gate = "Allowed" /\ routed # "none"
         ELSE /\ gate = "Denied" /\ OneResponse(401) /\ routed = "none"
              /\ starts = 0

\* the token followed by a no-break space in x-api-token is let in
C2_Witness ==
  /\ Served
  /\ apiToken = Tok
  /\ req.path = "/presign"
  /\ req.xApiToken = Tok \o <<NBSP>>
  /\ req.authorization = <<>>
  /\ gate = "Allowed"
  /\ routed = "presign"

Done == pc = "done"
Ran == Done /\ starts > 0
TimedOutMsg == <<"mc command timed out">>
TrimmedOut == IF Blank(out) THEN <<>> ELSE TrimSpace(out)

\* C3 as stated: a run that exceeds the deadline is answered 504 with no
\* tool output; a run that exits non-zero is answered 400 with the trimmed
\* output, or the process error when there is none; and a run that exits
\* zero is always a Success whose whole output goes to the parser, never a
\* 504 and never a tool-error 400.
C3_Classification ==
  Ran =>
    /\ (ctxErr = "DeadlineExceeded" /\ cmd.exit # 0)
         => /\ outcome = "Timeout"
            /\ OneResponse(504)
            /\ responses[1].error = TimedOutMsg
    /\ (cmd.state = "exited" /\ cmd.exit # 0 /\ ctxErr # "DeadlineExceeded")
         => /\ outcome = "ToolError"
            /\ OneResponse(400)
            /\ responses[1].error =
                 IF Blank(out) THEN cmdErr ELSE TrimmedOut
    /\ (cmd.state = "exited" /\ cmd.exit = 0)
         => /\ outcome = "Success"
            /\ parserInput = out
            /\ Len(responses) = 1
            /\ responses[1].status # 504

\* C4: a request for /presign gets exactly one response, a 200
\* PresignResponse or a JSON error with status 400, 401, 405, 500 or 504;
\* never two, never none once the handler is through, and the handler does
\* get through.
C4_Answered ==
  /\ Len(responses) = 1
  /\ \/ responses[1].kind = "presign" /\ responses[1].status = 200
     \/ /\ responses[1].kind = "error"
        /\ responses[1].status \in {400, 401, 405, 500, 504}

C4_Safe ==
  (Served /\ req.path = "/presign")
    => /\ Len(responses) <= 1
       /\ Done => C4_Answered
       /\ pc = "waiting" => responses = <<>>

C4_ExactlyOneResponse ==
  /\ []C4_Safe
  /\ [][Len(responses) > 0 => (responses' = responses \/ responses' = <<>>)]_vars
  /\ (pc = "waiting") ~> Done

\* a timed-out request with its one 504
C4_Witness ==
  /\ Done
  /\ req.path = "/presign"
  /\ ctxErr = "DeadlineExceeded"
  /\ OneResponse(504)

\* the target this request asks for
OwnTarget ==
  DefaultAlias \o <<"/">> \o local.bucket \o <<"/">> \o local.objectPath

C5_Safe ==
  /\ starts <= 1
  /\ (Done /\ routed = "presign" /\ starts = 1)
       => /\ cmd.state # "running"
          /\ Len(responses) = 1
  /\ (Len(responses) > 0 /\ responses[1].kind = "presign")
       => /\ starts = 1
          /\ cmd.state = "exited"
          /\ cmd.target = OwnTarget
          /\ parserInput = out

\* C5: the tool is started at most once per request; after a timeout, a
\* tool error or a parse failure the handler answers without starting it
\* again; and a success answer always rests on the run this request started.
C5_StartedOnce ==
  /\ []C5_Safe
  /\ [][starts' > starts => (pc = "idle" /\ starts = 0)]_vars

\* a tool error answered after a single start
C5_Witness ==
  /\ Done
  /\ outcome = "ToolError"
  /\ cmd.exit = 1
  /\ starts = 1
  /\ OneResponse(400)

\* C6: once the request is canceled or the deadline has passed while the
\* subprocess runs, the subprocess is terminated; and no subprocess is
\* running when the handler has finished.
C6_NoLeak ==
  /\ [](Done => cmd.state # "running")
  /\ [](pc = "idle" => cmd.state = "none")
  /\ (cmd.state = "running" /\ ctxErr # "nil") ~> (cmd.state # "running")

\* a canceled request whose subprocess was killed
C6_Witness ==
  /\ Done
  /\ ctxErr = "Canceled"
  /\ cmd.state = "killed"

AnyNegative == req.days < 0 \/ req.hours < 0 \/ req.minutes < 0
Valid ==
  /\ req.method = "POST"
  /\ req.body = "ok"
  /\ ~Blank(req.bucket)
  /\ ~Blank(req.key)

\* C7 as stated: a request with a negative days, hours or minutes is
\* answered with a validation error; the tool is never run for it with the
\* default expiration.
C7_NegativeRejected ==
  (Served /\ gate = "Allowed" /\ req.path = "/presign" /\ Valid /\ AnyNegative)
    => /\ starts = 0
       /\ OneResponse(400)
       /\ cmd.expire # DefaultExpire

\* str without the white space and separators at its two ends
Core(str) ==
  LET solid == {i \in 1..Len(str) : str[i] \notin WhiteSpace \cup {"/"}}
      first == CHOOSE i \in solid : \A k \in solid : i <= k
      last == CHOOSE i \in solid : \A k \in solid : i >= k
  IN IF solid = {} THEN <<>> ELSE SubSeq(str, first, last)

\* C8 as stated: for a key that is not blank, the joined path neither starts
\* nor ends with a separator, and when there is a folder exactly one
\* separator stands between the folder and the key.
C8_CanonicalPath ==
  (joined.called /\ ~Blank(joined.key))
    => LET p == joined.path
       IN /\ p # <<>> => (p[1] # "/" /\ p[Len(p)] # "/")
          /\ Core(joined.folder) # <<>>
               => /\ HasPrefix(p, Core(joined.folder) \o <<"/">>)
                  /\ \A i \in 1..(Len(p) - 1) : ~(p[i] = "/" /\ p[i + 1] = "/")

DigitValue(c) == (CHOOSE i \in 1..10 : DigitChars[i] = c) - 1
IsDigit(c) == \E i \in 1..10 : DigitChars[i] = c

RECURSIVE DecimalValue(_)
DecimalValue(ds) ==
  IF ds = <<>> THEN 0
  ELSE 10 * DecimalValue(SubSeq(ds, 1, Len(ds) - 1)) + DigitValue(ds[Len(ds)])

\* a duration string read back as <<number, unit>> pairs; <<-1, "?">> marks
\* anything that is not a number without leading zero followed by a unit
RECURSIVE ReadParts(_)
ReadParts(str) ==
  IF str = <<>> THEN <<>>
  ELSE LET nondigits == {i \in 1..Len(str) : ~IsDigit(str[i])}
           n == IF nondigits = {} THEN Len(str)
                ELSE (CHOOSE i \in nondigits : \A k \in nondigits : i <= k) - 1
       IN IF n = 0 \/ n = Len(str) \/ str[1] = "0"
            THEN << <<-1, "?">> >>
            ELSE << <<DecimalValue(SubSeq(str, 1, n)), str[n + 1]>> >>
                 \o ReadParts(SubSeq(str, n + 2, Len(str)))

\* the non-zero components of the request, in the order days, hours, minutes
NonZeroParts ==
  SelectSeq(<< <<req.days, "d">>, <<req.hours, "h">>, <<req.minutes, "m">> >>,
            LAMBDA part : part[1] # 0)

\* C9: for non-negative days, hours and minutes the expiration is <n>d, <n>h,
\* <n>m for the non-zero components, in that order and with nothing between
\* them, or 15m when all are zero; the tool's --expire argument and the
\* response's expires_in are that same string.
C9_ExpireFormat ==
  (Served /\ starts = 1 /\ ~AnyNegative)
    => /\ IF NonZeroParts = <<>> THEN cmd.expire = <<"1","5","m">>
          ELSE ReadParts(cmd.expire) = NonZeroParts
       /\ (req.days = 2 /\ req.hours = 3 /\ req.minutes = 15)
            => cmd.expire = <<"2","d","3","h","1","5","m">>
       /\ (req.days = 0 /\ req.hours = 3 /\ req.minutes = 0)
            => cmd.expire = <<"3","h">>
       /\ (responses # <<>> /\ responses[1].kind = "presign")
            => responses[1].expires_in = cmd.expire

\* two days, three hours and fifteen minutes, answered with success
C9_Witness ==
  /\ Done
  /\ req.days = 2 /\ req.hours = 3 /\ req.minutes = 15
  /\ OneResponse(200)
  /\ responses[1].expires_in = <<"2","d","3","h","1","5","m">>

\* C10: a subprocess exists only for a request for /presign that the gate
\* allowed and that is a POST with a well-formed body and a bucket and key
\* that are not blank; a request that was denied, met the misconfiguration
\* error, used another method or failed validation has none.
C10_StartedOnlyWhenValid ==
  /\ (starts > 0 \/ cmd # NoCmd)
       => /\ gate = "Allowed"
          /\ ~Blank(apiToken)
          /\ routed = "presign"
          /\ req.path = "/presign"
          /\ Valid
  /\ (Served /\ (gate # "Allowed" \/ ~Valid \/ req.path # "/presign"))
       => /\ starts = 0
          /\ cmd = NoCmd
          /\ Done

\* an allowed, valid request with its subprocess running
C10_Witness ==
  /\ pc = "waiting"
  /\ cmd.state = "running"
  /\ gate = "Allowed"
  /\ req.authorization = <<"B","E","A","R","E","R"," ">> \o Tok
  /\ req.xApiToken = <<>>
====
